---- MODULE Spec2Model ----
(***************************************************************************)
(* A model of src/app.py: the /query pipeline (validate, provision a       *)
(* connection, execute under the SIGALRM deadline, fetch in batches, close *)
(* the connection, stream the encoded rows) and the /health probe.         *)
(*                                                                         *)
(* Both handlers are `async def` bodies without an await: the event loop   *)
(* runs one handler body at a time (variable running).  The generator      *)
(* handed to StreamingResponse is consumed after query() has returned, so  *)
(* its steps interleave with other handlers.                               *)
(***************************************************************************)
EXTENDS Integers, Sequences, FiniteSets, TLC

(***************************************************************************)
(* Bounds of the model.                                                    *)
(***************************************************************************)
MaxRows == 3

MaxBatchSize == 2

MaxTimeout == 1
\* the most /query requests in flight at once
MaxRequests == 2

(***************************************************************************)
(* Text: a string is a sequence of one-character strings.                  *)
(***************************************************************************)
LowerLetters ==
    << "a", "b", "c", "d", "e", "f", "g", "h", "i", "j", "k", "l", "m",
       "n", "o", "p", "q", "r", "s", "t", "u", "v", "w", "x", "y", "z" >>

UpperLetters ==
    << "A", "B", "C", "D", "E", "F", "G", "H", "I", "J", "K", "L", "M",
       "N", "O", "P", "Q", "R", "S", "T", "U", "V", "W", "X", "Y", "Z" >>

IsSpace(c) == c \in {" ", "\t", "\n", "\r"}

UpperChar(c) ==
    IF \E k \in 1..26 : LowerLetters[k] = c
    THEN UpperLetters[CHOOSE k \in 1..26 : LowerLetters[k] = c]
    ELSE c

LowerChar(c) ==
    IF \E k \in 1..26 : UpperLetters[k] = c
    THEN LowerLetters[CHOOSE k \in 1..26 : UpperLetters[k] = c]
    ELSE c

\* str.upper()
Upper(s) == [k \in 1..Len(s) |-> UpperChar(s[k])]

\* str.lower()
Lower(s) == [k \in 1..Len(s) |-> LowerChar(s[k])]

RECURSIVE LStrip(_)
LStrip(s) ==
    IF s = << >> THEN s
    ELSE IF IsSpace(Head(s)) THEN LStrip(Tail(s)) ELSE s

RECURSIVE RStrip(_)
RStrip(s) ==
    IF s = << >> THEN s
    ELSE IF IsSpace(s[Len(s)]) THEN RStrip(SubSeq(s, 1, Len(s) - 1)) ELSE s

\* str.strip()
Strip(s) == RStrip(LStrip(s))

\* str.startswith(p)
StartsWith(s, p) == Len(s) >= Len(p) /\ SubSeq(s, 1, Len(p)) = p

\* p in s
Contains(s, p) ==
    \E k \in 0..Len(s) : Len(s) - k >= Len(p) /\ SubSeq(s, k + 1, k + Len(p)) = p

SELECT == << "S", "E", "L", "E", "C", "T" >>

csv == << "c", "s", "v" >>

json == << "j", "s", "o", "n" >>

\* request.format left out of the body, or null: the value None
None == << "None" >>

(***************************************************************************)
(* The requests the model sends.                                           *)
(***************************************************************************)
SqlInputs ==
    { << "S", "E", "L", "E", "C", "T", " ", "1" >>,
      << " ", "\n", "s", "e", "L", "e", "c", "t", " ", "1", " " >>,
      << "D", "E", "L", "E", "T", "E" >>,
      << " ", "d", "e", "l", "e", "t", "e", " " >>,
      << "(", "S", "E", "L", "E", "C", "T", " ", "1", ")" >>,
      << "S", "E", "L", "E", "C" >>,
      << " ", " " >>,
      << >> }

FormatInputs ==
    { None,
      csv,
      << " ", "J", "s", "o", "N", " " >>,
      << "x", "m", "l" >>,
      << >> }

VARIABLES
    \* the host and the database
    dbExists,        \* os.path.exists(DB_PATH)
    hasSIGALRM,      \* hasattr(signal, 'SIGALRM')
    BATCH_SIZE,      \* the configured batch size
    QUERY_TIMEOUT,   \* the configured timeout, in seconds
    resultSet,       \* the rows the statement produces, in cursor order
    conns,           \* every connection sqlite3.connect has returned
    alarmArmed,      \* a signal.alarm(seconds) is pending
    sigHandler,      \* the installed SIGALRM handler
    running,         \* the handler body the event loop is running
    \* the /query request
    sql, format,     \* the request body
    pc,              \* the position of query()
    request_format, conn, old_handler, execResult, execExceeded,
    cursorPos,       \* rows the cursor has already returned
    all_rows, fetch_batch_count,
    batches,         \* history: the non-empty results of fetchmany, in order
    fetchCalls,      \* history: the number of fetchmany calls
    exc,             \* the exception travelling to the except clauses of query()
    status,          \* the HTTP status of the response, 0 before there is one
    \* the generator consumed by StreamingResponse
    gpc, i, first_row,
    chunks,          \* the chunks yielded so far
    media_type, filename,   \* what StreamingResponse was given
    \* the other requests
    cur,             \* the /query request whose locals the variables above hold
    parked,          \* the locals of the other /query requests, by request
    \* the log
    errorLog,        \* the warnings and errors logged so far
    \* the /health probe
    hpc, hconn, hexc, hstatus

envVars ==
    << dbExists, hasSIGALRM, BATCH_SIZE, QUERY_TIMEOUT, resultSet, sql, format >>

alarmVars == << alarmArmed, sigHandler, old_handler >>

fetchVars == << cursorPos, all_rows, fetch_batch_count, batches, fetchCalls >>

streamVars == << gpc, i, first_row, chunks >>

healthVars == << hpc, hconn, hexc, hstatus >>

responseVars == << media_type, filename >>

schedVars == << cur, parked >>

vars ==
    << dbExists, hasSIGALRM, BATCH_SIZE, QUERY_TIMEOUT, resultSet, conns, alarmArmed,
       sigHandler, running, sql, format, pc, request_format, conn,
       old_handler, execResult, execExceeded, cursorPos, all_rows,
       fetch_batch_count, batches, fetchCalls, exc, status, gpc, i,
       first_row, chunks, media_type, filename, cur, parked, errorLog,
       hpc, hconn, hexc, hstatus >>

Init ==
    /\ dbExists \in BOOLEAN
    /\ hasSIGALRM \in BOOLEAN
    /\ BATCH_SIZE \in 1..MaxBatchSize
    /\ QUERY_TIMEOUT \in 0..MaxTimeout
    /\ \E n \in 0..MaxRows : resultSet = [k \in 1..n |-> k]
    /\ sql \in SqlInputs
    /\ format \in FormatInputs
    /\ conns = << >>
    /\ alarmArmed = FALSE
    /\ sigHandler = "SIG_DFL"
    /\ running = "none"
    /\ pc = "idle"
    /\ request_format = << >>
    /\ conn = 0
    /\ old_handler = "SIG_DFL"
    /\ execResult = "none"
    /\ execExceeded = FALSE
    /\ cursorPos = 0
    /\ all_rows = << >>
    /\ fetch_batch_count = 0
    /\ batches = << >>
    /\ fetchCalls = 0
    /\ exc = "none"
    /\ status = 0
    /\ gpc = "none"
    /\ i = 0
    /\ first_row = TRUE
    /\ chunks = << >>
    /\ media_type = ""
    /\ filename = ""
    /\ cur = 1
    /\ parked = << >>
    /\ errorLog = {}
    /\ hpc = "idle"
    /\ hconn = 0
    /\ hexc = "none"
    /\ hstatus = 0

(***************************************************************************)
(* get_db_connection, for both callers.                                    *)
(***************************************************************************)
\* a faulty variant: no os.path.exists test; sqlite3.connect then creates the file
DbOutcomes_NoExistsCheck == {"connect_error", "pragma_error", "ok"}

\* what a call can do: the file is missing; sqlite3.connect raises; connect
\* returns and a PRAGMA raises; or the tuned connection is returned
DbOutcomes ==
    IF ~dbExists THEN {"notfound"} ELSE {"connect_error", "pragma_error", "ok"}

\* the request whose handler body the event loop is running: the /query
\* request cur, or 0 for the /health probe
Caller == IF running = "health" THEN 0 ELSE cur

\* the connections after the call: connect returned a handle in two outcomes.
\* history: req is the request that opened the connection, users the requests
\* that have used it, execs the statements executed on it after the pragmas
ConnsAfterOpen(owner, outcome) ==
    IF outcome \in {"pragma_error", "ok"}
    THEN Append(conns, [owner |-> owner, closes |-> 0, req |-> Caller,
                        users |-> {Caller}, execs |-> 0])
    ELSE conns

\* a faulty variant: one module-level connection, opened by the first call and
\* handed to every later one
ReturnedConn_Cached(outcome) ==
    IF outcome = "ok" THEN (IF conns = << >> THEN Len(conns) + 1 ELSE 1) ELSE 0

\* the caller's conn after the call (0: nothing was bound)
ReturnedConn(outcome) == IF outcome = "ok" THEN Len(conns) + 1 ELSE 0

\* a faulty variant: every failure to open is raised as the 404 of a missing file
RaisedBy_AllNotFound(outcome) ==
    IF outcome = "ok" THEN "none" ELSE "HTTP404"

\* the exception the call leaves with
RaisedBy(outcome) ==
    CASE outcome = "notfound" -> "HTTP404"
      [] outcome \in {"connect_error", "pragma_error"} -> "sqlite"
      [] OTHER -> "none"

\* what get_db_connection logs: logger.error in its except clause; the 404 of
\* a missing file is raised before the try block and is not logged
LoggedByOpen(outcome) ==
    IF outcome \in {"connect_error", "pragma_error"}
    THEN {"Failed to connect to database"}
    ELSE {}

\* conn.close()
CloseConnection(c) ==
    [conns EXCEPT ![c].closes = @ + 1, ![c].users = @ \cup {Caller}]

\* a statement is executed on connection c
ExecuteOn(c) ==
    [conns EXCEPT ![c].execs = @ + 1, ![c].users = @ \cup {Caller}]

\* fetchmany is called on a cursor of connection c
FetchOn(c) == [conns EXCEPT ![c].users = @ \cup {Caller}]

(***************************************************************************)
(* query(): validation, before the try block.                              *)
(***************************************************************************)
\* provided_format: None stands for "csv"; then str(...).strip().lower()
NormalizeFormat(f) == Lower(Strip(IF f = None THEN csv ELSE f))

\* a faulty variant: "SELECT" in sql_upper, in place of startswith
IsSelectQuery_Contains(s) == Contains(Upper(Strip(s)), SELECT)

\* not sql_upper.startswith("SELECT") is what rejects a statement
IsSelectQuery(s) == StartsWith(Upper(Strip(s)), SELECT)

\* a faulty variant: query() goes straight to the try block, validating nothing
Receive_NoValidation ==
    /\ pc = "idle"
    /\ running = "none"
    /\ running' = "query"
    /\ pc' = "provision"
    /\ UNCHANGED << envVars, schedVars, responseVars, errorLog, conns,
                    alarmVars, request_format, conn, execResult,
                    execExceeded, fetchVars, exc, status, streamVars,
                    healthVars >>

\* the request arrives: the event loop starts running query()
Receive ==
    /\ pc = "idle"
    /\ running = "none"
    /\ running' = "query"
    /\ pc' = "validate_format"
    /\ UNCHANGED << envVars, schedVars, responseVars, errorLog, conns, alarmVars, request_format, conn,
                    execResult, execExceeded, fetchVars, exc, status,
                    streamVars, healthVars >>

\* an HTTPException raised outside the try block leaves query() at once
ValidateFormat ==
    /\ pc = "validate_format"
    /\ IF NormalizeFormat(format) \notin {csv, json}
       THEN /\ status' = 400
            /\ pc' = "failed"
            /\ running' = "none"
            /\ UNCHANGED request_format
       ELSE /\ request_format' = NormalizeFormat(format)
            /\ pc' = "validate_sql"
            /\ UNCHANGED << status, running >>
    /\ UNCHANGED << envVars, schedVars, responseVars, errorLog, conns, alarmVars, conn, execResult,
                    execExceeded, fetchVars, exc, streamVars, healthVars >>

ValidateSql ==
    /\ pc = "validate_sql"
    /\ IF ~IsSelectQuery(sql)
       THEN /\ errorLog' = errorLog \cup {"Non-SELECT query rejected"}
            /\ status' = 400
            /\ pc' = "failed"
            /\ running' = "none"
       ELSE /\ pc' = "provision"
            /\ UNCHANGED << errorLog, status, running >>
    /\ UNCHANGED << envVars, schedVars, responseVars, conns, alarmVars, request_format, conn,
                    execResult, execExceeded, fetchVars, exc, streamVars,
                    healthVars >>

(***************************************************************************)
(* query(): the try block.                                                 *)
(***************************************************************************)
\* conn = get_db_connection(); cursor = conn.cursor()
Provision ==
    /\ pc = "provision"
    /\ \E outcome \in DbOutcomes :
         /\ conns' = ConnsAfterOpen("query", outcome)
         /\ conn' = ReturnedConn(outcome)
         /\ exc' = RaisedBy(outcome)
         /\ errorLog' = errorLog \cup LoggedByOpen(outcome)
         /\ pc' = IF outcome = "ok" THEN "timed_execute" ELSE "except"
    /\ UNCHANGED << envVars, schedVars, responseVars, alarmVars, running, request_format, execResult,
                    execExceeded, fetchVars, status, streamVars, healthVars >>

\* signal.alarm(seconds) schedules a SIGALRM; signal.alarm(0) schedules none
AlarmSet(seconds) == seconds > 0

\* a faulty variant: the handler is installed and signal.alarm(seconds) is forgotten
ArmAlarm_HandlerOnly ==
    /\ pc = "timed_execute"
    /\ hasSIGALRM
    /\ old_handler' = sigHandler
    /\ sigHandler' = "timeout_signal"
    /\ pc' = "execute"
    /\ UNCHANGED << envVars, schedVars, responseVars, errorLog, conns, alarmArmed, running, request_format,
                    conn, execResult, execExceeded, fetchVars, exc, status,
                    streamVars, healthVars >>

\* timeout_handler.__enter__: install the handler, arm the alarm
ArmAlarm ==
    /\ pc = "timed_execute"
    /\ hasSIGALRM
    /\ old_handler' = sigHandler
    /\ sigHandler' = "timeout_signal"
    /\ alarmArmed' = AlarmSet(QUERY_TIMEOUT)
    /\ pc' = "execute"
    /\ UNCHANGED << envVars, schedVars, responseVars, errorLog, conns, running, request_format, conn,
                    execResult, execExceeded, fetchVars, exc, status,
                    streamVars, healthVars >>

\* no SIGALRM on this host: warn, and execute without a deadline
SkipAlarm ==
    /\ pc = "timed_execute"
    /\ ~hasSIGALRM
    /\ errorLog' = errorLog \cup {"SIGALRM not available"}
    /\ pc' = "execute"
    /\ UNCHANGED << envVars, schedVars, responseVars, conns, alarmVars, running, request_format,
                    conn, execResult, execExceeded, fetchVars, exc, status,
                    streamVars, healthVars >>

\* what cursor.execute(request.sql) can do when it ends in time or is not
\* interrupted: a cursor with columns, one without, or a sqlite3.Error
ExecOutcomes == {"ok", "nocols", "error"}

\* whether the statement can need longer than `seconds` seconds: it may or
\* may not, and every statement needs longer than 0 seconds
Slowness(seconds) == IF seconds = 0 THEN {TRUE} ELSE BOOLEAN

\* cursor.execute(request.sql).  `slow`: the statement needs longer than
\* QUERY_TIMEOUT seconds.  With the alarm armed SIGALRM then arrives and
\* timeout_signal raises TimeoutError; with none armed nothing interrupts it.
Execute ==
    /\ pc = "execute"
    /\ conns' = ExecuteOn(conn)
    /\ \E slow \in Slowness(QUERY_TIMEOUT), outcome \in ExecOutcomes :
         /\ execExceeded' = slow
         /\ execResult' = IF slow /\ alarmArmed THEN "timeout" ELSE outcome
    /\ pc' = IF hasSIGALRM THEN "disarm" ELSE "after_execute"
    /\ UNCHANGED << envVars, schedVars, responseVars, errorLog, alarmVars, running, request_format,
                    conn, fetchVars, exc, status, streamVars, healthVars >>

\* a faulty variant: the old handler is restored and signal.alarm(0) is forgotten
Disarm_HandlerOnly ==
    /\ pc = "disarm"
    /\ sigHandler' = old_handler
    /\ pc' = "after_execute"
    /\ UNCHANGED << envVars, schedVars, responseVars, errorLog, conns,
                    alarmArmed, old_handler, running, request_format, conn,
                    execResult, execExceeded, fetchVars, exc, status,
                    streamVars, healthVars >>

\* timeout_handler's finally: signal.alarm(0), restore the old handler
Disarm ==
    /\ pc = "disarm"
    /\ alarmArmed' = FALSE
    /\ sigHandler' = old_handler
    /\ pc' = "after_execute"
    /\ UNCHANGED << envVars, schedVars, responseVars, errorLog, conns, old_handler, running, request_format,
                    conn, execResult, execExceeded, fetchVars, exc, status,
                    streamVars, healthVars >>

\* a faulty variant: TimeoutError is not told apart from a driver error
AfterExecuteRaises_TimeoutAsError(result) ==
    CASE result \in {"timeout", "error"} -> "sqlite"
      [] result = "nocols" -> "HTTP400"
      [] OTHER -> "none"

\* the exception query() raises for what execute did
AfterExecuteRaises(result) ==
    CASE result = "timeout" -> "HTTP408"
      [] result = "error" -> "sqlite"
      [] result = "nocols" -> "HTTP400"
      [] OTHER -> "none"

\* logger.error of `except TimeoutError`, logger.warning of the description test
LoggedAfterExecute(result) ==
    CASE result = "timeout" -> {"Query timeout"}
      [] result = "nocols" -> {"Query returned no results"}
      [] OTHER -> {}

\* except TimeoutError; the cursor.description test; all_rows = []
AfterExecute ==
    /\ pc = "after_execute"
    /\ exc' = AfterExecuteRaises(execResult)
    /\ errorLog' = errorLog \cup LoggedAfterExecute(execResult)
    /\ pc' = IF execResult = "ok" THEN "fetch" ELSE "except"
    /\ UNCHANGED << envVars, schedVars, responseVars, conns, alarmVars, running, request_format,
                    conn, execResult, execExceeded, fetchVars, status,
                    streamVars, healthVars >>

Min(a, b) == IF a <= b THEN a ELSE b

\* cursor.fetchmany(size) with pos rows already returned: the next rows, at
\* most size of them, in cursor order
FetchMany(pos, size) == SubSeq(resultSet, pos + 1, Min(pos + size, Len(resultSet)))

\* a faulty variant: all_rows = rows, in place of all_rows.extend(rows)
Extend_Replace(all, rows) == rows

\* all_rows.extend(rows)
Extend(all, rows) == all \o rows

\* a faulty variant: `if len(rows) < BATCH_SIZE: break`, which drops a short last batch
FetchBatch_BreakOnShort ==
    /\ pc = "fetch"
    /\ conns' = FetchOn(conn)
    /\ LET rows == FetchMany(cursorPos, BATCH_SIZE)
       IN  /\ fetchCalls' = fetchCalls + 1
           /\ cursorPos' = cursorPos + Len(rows)
           /\ IF Len(rows) < BATCH_SIZE
              THEN /\ pc' = "close_cursor"
                   /\ UNCHANGED << all_rows, fetch_batch_count, batches >>
              ELSE /\ all_rows' = Extend(all_rows, rows)
                   /\ fetch_batch_count' = fetch_batch_count + 1
                   /\ batches' = Append(batches, rows)
                   /\ pc' = "fetch"
    /\ UNCHANGED << envVars, schedVars, responseVars, errorLog, alarmVars, running, request_format,
                    conn, execResult, execExceeded, exc, status, streamVars,
                    healthVars >>

\* a faulty variant: a first fetch that returns no row is reported as an error
FetchBatch_EmptyIsError ==
    /\ pc = "fetch"
    /\ conns' = FetchOn(conn)
    /\ LET rows == FetchMany(cursorPos, BATCH_SIZE)
       IN  /\ fetchCalls' = fetchCalls + 1
           /\ cursorPos' = cursorPos + Len(rows)
           /\ IF rows = << >>
              THEN /\ pc' = IF all_rows = << >> THEN "except" ELSE "close_cursor"
                   /\ exc' = IF all_rows = << >> THEN "HTTP400" ELSE exc
                   /\ UNCHANGED << all_rows, fetch_batch_count, batches >>
              ELSE /\ all_rows' = Extend(all_rows, rows)
                   /\ fetch_batch_count' = fetch_batch_count + 1
                   /\ batches' = Append(batches, rows)
                   /\ pc' = "fetch"
                   /\ UNCHANGED exc
    /\ UNCHANGED << envVars, schedVars, responseVars, errorLog,
                    alarmVars, running, request_format, conn, execResult,
                    execExceeded, status, streamVars, healthVars >>

\* one turn of `while True`: rows = cursor.fetchmany(BATCH_SIZE); break on an
\* empty list, all_rows.extend(rows) otherwise
FetchBatch ==
    /\ pc = "fetch"
    /\ conns' = FetchOn(conn)
    /\ LET rows == FetchMany(cursorPos, BATCH_SIZE)
       IN  /\ fetchCalls' = fetchCalls + 1
           /\ cursorPos' = cursorPos + Len(rows)
           /\ IF rows = << >>
              THEN /\ pc' = "close_cursor"
                   /\ UNCHANGED << all_rows, fetch_batch_count, batches >>
              ELSE /\ all_rows' = Extend(all_rows, rows)
                   /\ fetch_batch_count' = fetch_batch_count + 1
                   /\ batches' = Append(batches, rows)
                   /\ pc' = "fetch"
    /\ UNCHANGED << envVars, schedVars, responseVars, errorLog, alarmVars, running, request_format,
                    conn, execResult, execExceeded, exc, status, streamVars,
                    healthVars >>

\* fetchmany raises: a sqlite3.Error from the driver, or any other exception
FetchFault ==
    /\ pc = "fetch"
    /\ conns' = FetchOn(conn)
    /\ exc' \in {"sqlite", "other"}
    /\ fetchCalls' = fetchCalls + 1
    /\ pc' = "except"
    /\ UNCHANGED << envVars, schedVars, responseVars, errorLog, alarmVars, running, request_format,
                    conn, execResult, execExceeded, cursorPos, all_rows,
                    fetch_batch_count, batches, status, streamVars,
                    healthVars >>

\* a faulty variant: cursor.close() alone; conn.close() is forgotten
CloseAfterFetch_CursorOnly ==
    /\ pc = "close_cursor"
    /\ pc' = "respond"
    /\ UNCHANGED << envVars, schedVars, responseVars, errorLog, conns, alarmVars, running, request_format,
                    conn, execResult, execExceeded, fetchVars, exc, status,
                    streamVars, healthVars >>

\* cursor.close(); conn.close()
CloseAfterFetch ==
    /\ pc = "close_cursor"
    /\ conns' = CloseConnection(conn)
    /\ pc' = "respond"
    /\ UNCHANGED << envVars, schedVars, responseVars, errorLog, alarmVars, running, request_format, conn,
                    execResult, execExceeded, fetchVars, exc, status,
                    streamVars, healthVars >>

\* media_type of the two branches of `if request_format == "json"`
MediaTypeOf(fmt) == IF fmt = json THEN "application/json" ELSE "text/csv"

\* a faulty variant: both branches name the CSV file
FilenameOf_AlwaysCsv(fmt) == "query_result.csv"

\* filename of the two branches of `if request_format == "json"`
FilenameOf(fmt) ==
    IF fmt = json THEN "query_result.json" ELSE "query_result.csv"

\* choose generate(), media type and file name; return StreamingResponse(...):
\* query() has returned, the generator has not started
Respond ==
    /\ pc = "respond"
    /\ media_type' = MediaTypeOf(request_format)
    /\ filename' = FilenameOf(request_format)
    /\ status' = 200
    /\ pc' = "streaming"
    /\ gpc' = "start"
    /\ running' = "none"
    /\ UNCHANGED << envVars, schedVars, errorLog, conns, alarmVars, request_format, conn,
                    execResult, execExceeded, fetchVars, exc, i, first_row,
                    chunks, healthVars >>

\* an exception between conn.close() and the return (building the response)
RespondFault ==
    /\ pc = "respond"
    /\ exc' = "other"
    /\ pc' = "except"
    /\ UNCHANGED << envVars, schedVars, responseVars, errorLog, conns, alarmVars, running, request_format,
                    conn, execResult, execExceeded, fetchVars, status,
                    streamVars, healthVars >>

\* the status each except clause of query() reports
StatusOf(e) ==
    CASE e = "HTTP400" -> 400
      [] e = "HTTP404" -> 404
      [] e = "HTTP408" -> 408
      [] e = "sqlite" -> 400
      [] OTHER -> 500

\* what each except clause of query() logs; HTTPException is re-raised unlogged
LoggedByExcept(e) ==
    CASE e = "sqlite" -> {"SQLite error"}
      [] e = "other" -> {"Unexpected error"}
      [] OTHER -> {}

\* `if conn: conn.close()` of the except clauses
CloseIfBound(c) == IF c # 0 THEN CloseConnection(c) ELSE conns

\* except HTTPException / sqlite3.Error / Exception: close, then raise
Except ==
    /\ pc = "except"
    /\ conns' = CloseIfBound(conn)
    /\ status' = StatusOf(exc)
    /\ errorLog' = errorLog \cup LoggedByExcept(exc)
    /\ pc' = "failed"
    /\ running' = "none"
    /\ UNCHANGED << envVars, schedVars, responseVars, alarmVars, request_format, conn, execResult,
                    execExceeded, fetchVars, exc, streamVars, healthVars >>

(***************************************************************************)
(* The generators, consumed chunk by chunk once query() has returned.  A   *)
(* chunk is written [kind, rows]: what was yielded and the rows it encodes.*)
(***************************************************************************)
Chunk(kind, rows) == [kind |-> kind, rows |-> rows]

\* stream_json_rows: yield "[\n"
JsonStart ==
    /\ pc = "streaming" /\ request_format = json
    /\ gpc = "start"
    /\ chunks' = Append(chunks, Chunk("open", << >>))
    /\ i' = 0
    /\ first_row' = TRUE
    /\ gpc' = "loop"
    /\ UNCHANGED << envVars, schedVars, responseVars, errorLog, conns, alarmVars, running, pc, request_format,
                    conn, execResult, execExceeded, fetchVars, exc, status,
                    healthVars >>

\* a faulty variant: the separator is yielded before every record, the first too
YieldsSeparator_Always(first) == TRUE

\* `if not first_row: yield ",\n"`
YieldsSeparator(first) == ~first

\* stream_json_rows: the next turn of `for i, row in enumerate(all_rows)` up
\* to its first yield, or, past the last row, yield "\n]"
JsonNext ==
    /\ pc = "streaming" /\ request_format = json
    /\ gpc = "loop"
    /\ IF i < Len(all_rows)
       THEN IF YieldsSeparator(first_row)
            THEN /\ chunks' = Append(chunks, Chunk("separator", << >>))
                 /\ gpc' = "record"
                 /\ UNCHANGED << i, first_row >>
            ELSE /\ first_row' = FALSE
                 /\ chunks' = Append(chunks, Chunk("record", << all_rows[i + 1] >>))
                 /\ i' = i + 1
                 /\ gpc' = "loop"
       ELSE /\ chunks' = Append(chunks, Chunk("close", << >>))
            /\ gpc' = "end"
            /\ UNCHANGED << i, first_row >>
    /\ UNCHANGED << envVars, schedVars, responseVars, errorLog, conns, alarmVars, running, pc, request_format,
                    conn, execResult, execExceeded, fetchVars, exc, status,
                    healthVars >>

\* stream_json_rows: yield "  " + json_str, after the separator
JsonRecord ==
    /\ pc = "streaming" /\ request_format = json
    /\ gpc = "record"
    /\ chunks' = Append(chunks, Chunk("record", << all_rows[i + 1] >>))
    /\ i' = i + 1
    /\ gpc' = "loop"
    /\ UNCHANGED << envVars, schedVars, responseVars, errorLog, conns, alarmVars, running, pc, request_format,
                    conn, execResult, execExceeded, fetchVars, exc, status,
                    first_row, healthVars >>

\* stream_json_rows returns after the closing marker
JsonEnd ==
    /\ pc = "streaming" /\ request_format = json
    /\ gpc = "end"
    /\ gpc' = "returned"
    /\ pc' = "done"
    /\ UNCHANGED << envVars, schedVars, responseVars, errorLog, conns, alarmVars, running, request_format,
                    conn, execResult, execExceeded, fetchVars, exc, status,
                    i, first_row, chunks, healthVars >>

\* stream_csv_rows: yield the header record
CsvStart ==
    /\ pc = "streaming" /\ request_format = csv
    /\ gpc = "start"
    /\ chunks' = Append(chunks, Chunk("header", << >>))
    /\ i' = 0
    /\ gpc' = "loop"
    /\ UNCHANGED << envVars, schedVars, responseVars, errorLog, conns, alarmVars, running, pc, request_format,
                    conn, execResult, execExceeded, fetchVars, exc, status,
                    first_row, healthVars >>

\* a faulty variant: all_rows[i:i + BATCH_SIZE + 1], one row too many
Slice_Inclusive(rows, from, size) ==
    SubSeq(rows, from + 1, Min(from + size + 1, Len(rows)))

\* all_rows[i:i + BATCH_SIZE]
Slice(rows, from, size) == SubSeq(rows, from + 1, Min(from + size, Len(rows)))

\* stream_csv_rows: the next turn of `for i in range(0, total_rows,
\* BATCH_SIZE)`, which yields one batch, or the return past the last one
CsvNext ==
    /\ pc = "streaming" /\ request_format = csv
    /\ gpc = "loop"
    /\ IF i < Len(all_rows)
       THEN /\ chunks' = Append(chunks, Chunk("batch", Slice(all_rows, i, BATCH_SIZE)))
            /\ i' = i + BATCH_SIZE
            /\ UNCHANGED << gpc, pc >>
       ELSE /\ gpc' = "returned"
            /\ pc' = "done"
            /\ UNCHANGED << i, chunks >>
    /\ UNCHANGED << envVars, schedVars, responseVars, errorLog, conns, alarmVars, running, request_format,
                    conn, execResult, execExceeded, fetchVars, exc, status,
                    first_row, healthVars >>

\* the text of a chunk of stream_csv_rows, record by record: writer.writerow
\* writes one record for the column names, and one for each row of a batch
CsvRecords(c) ==
    IF c.kind = "header"
    THEN << [record |-> "column_names", row |-> 0] >>
    ELSE [k \in 1..Len(c.rows) |-> [record |-> "row", row |-> c.rows[k]]]

\* logger.error of stream_json_rows / stream_csv_rows, then of generate()
LoggedByStream(fmt) ==
    IF fmt = json
    THEN {"Error streaming JSON rows", "Error in JSON stream generator"}
    ELSE {"Error streaming CSV rows", "Error in CSV stream generator"}

\* a faulty variant: `except Exception: pass` in generate(); the stream ends as
\* if the generator had returned
StreamFault_Swallowed ==
    /\ pc = "streaming"
    /\ gpc \in {"start", "loop", "record"}
    /\ gpc' = "returned"
    /\ pc' = "done"
    /\ UNCHANGED << envVars, schedVars, responseVars, errorLog, conns,
                    alarmVars, running, request_format, conn, execResult,
                    execExceeded, fetchVars, exc, status, i, first_row,
                    chunks, healthVars >>

\* an exception while a chunk is encoded: logged by the generators and
\* raised again; the response has begun and the stream breaks off
StreamFault ==
    /\ pc = "streaming"
    /\ gpc \in {"start", "loop", "record"}
    /\ gpc' = "raised"
    /\ errorLog' = errorLog \cup LoggedByStream(request_format)
    /\ pc' = "stream_failed"
    /\ UNCHANGED << envVars, schedVars, responseVars, conns, alarmVars, running, request_format,
                    conn, execResult, execExceeded, fetchVars, exc, status,
                    i, first_row, chunks, healthVars >>

(***************************************************************************)
(* health()                                                                *)
(***************************************************************************)
HealthStart ==
    /\ hpc = "idle"
    /\ running = "none"
    /\ running' = "health"
    /\ hpc' = "provision"
    /\ UNCHANGED << envVars, schedVars, responseVars, errorLog, conns, alarmVars, pc, request_format, conn,
                    execResult, execExceeded, fetchVars, exc, status,
                    streamVars, hconn, hexc, hstatus >>

\* conn = get_db_connection()
HealthProvision ==
    /\ hpc = "provision"
    /\ \E outcome \in DbOutcomes :
         /\ conns' = ConnsAfterOpen("health", outcome)
         /\ hconn' = ReturnedConn(outcome)
         /\ hexc' = RaisedBy(outcome)
         /\ errorLog' = errorLog \cup LoggedByOpen(outcome)
         /\ hpc' = IF outcome = "ok" THEN "select1" ELSE "except"
    /\ UNCHANGED << envVars, schedVars, responseVars, alarmVars, running, pc, request_format, conn,
                    execResult, execExceeded, fetchVars, exc, status,
                    streamVars, hstatus >>

\* conn.execute("SELECT 1"): returns, or raises a sqlite3.Error
HealthSelect1 ==
    /\ hpc = "select1"
    /\ conns' = ExecuteOn(hconn)
    /\ \E ok \in BOOLEAN :
         /\ hpc' = IF ok THEN "close" ELSE "except"
         /\ hexc' = IF ok THEN "none" ELSE "sqlite"
    /\ UNCHANGED << envVars, schedVars, responseVars, errorLog, alarmVars, running, pc, request_format,
                    conn, execResult, execExceeded, fetchVars, exc, status,
                    streamVars, hconn, hstatus >>

\* conn.close(); return {"status": "healthy", ...}
HealthReturn ==
    /\ hpc = "close"
    /\ conns' = CloseConnection(hconn)
    /\ hstatus' = 200
    /\ hpc' = "done"
    /\ running' = "none"
    /\ UNCHANGED << envVars, schedVars, responseVars, errorLog, alarmVars, pc, request_format, conn,
                    execResult, execExceeded, fetchVars, exc, status,
                    streamVars, hconn, hexc >>

\* the status health() reports for any exception
HealthStatusOf(e) == 503

\* except Exception: raise HTTPException(status_code=503, ...)
HealthExcept ==
    /\ hpc = "except"
    /\ hstatus' = HealthStatusOf(hexc)
    /\ errorLog' = errorLog \cup {"Health check failed"}
    /\ hpc' = "failed"
    /\ running' = "none"
    /\ UNCHANGED << envVars, schedVars, responseVars, conns, alarmVars, pc, request_format, conn,
                    execResult, execExceeded, fetchVars, exc, status,
                    streamVars, hconn, hexc >>

Next ==
    \/ Receive
    \/ ValidateFormat
    \/ ValidateSql
    \/ Provision
    \/ ArmAlarm
    \/ SkipAlarm
    \/ Execute
    \/ Disarm
    \/ AfterExecute
    \/ FetchBatch
    \/ FetchFault
    \/ CloseAfterFetch
    \/ Respond
    \/ RespondFault
    \/ Except
    \/ JsonStart
    \/ JsonNext
    \/ JsonRecord
    \/ JsonEnd
    \/ CsvStart
    \/ CsvNext
    \/ StreamFault
    \/ HealthStart
    \/ HealthProvision
    \/ HealthSelect1
    \/ HealthReturn
    \/ HealthExcept

Spec == Init /\ [][Next]_vars

(***************************************************************************)
(* Several /query requests in flight.  Each call of query() has its own    *)
(* locals and each StreamingResponse its own generator; the variables of   *)
(* the /query request hold those of request cur, and parked those of the   *)
(* others.  A handler body has no await, so the event loop turns to        *)
(* another request only between handler bodies; the steps of a generator   *)
(* touch nothing but its own locals.                                       *)
(***************************************************************************)
\* the locals of the request the variables hold
Locals ==
    [sql |-> sql, format |-> format, pc |-> pc,
     request_format |-> request_format, conn |-> conn,
     old_handler |-> old_handler, execResult |-> execResult,
     execExceeded |-> execExceeded, cursorPos |-> cursorPos,
     all_rows |-> all_rows, fetch_batch_count |-> fetch_batch_count,
     batches |-> batches, fetchCalls |-> fetchCalls, exc |-> exc,
     status |-> status, gpc |-> gpc, i |-> i, first_row |-> first_row,
     chunks |-> chunks, media_type |-> media_type, filename |-> filename]

\* the locals of a request that has not been received yet
NewRequest(s, f) ==
    [sql |-> s, format |-> f, pc |-> "idle", request_format |-> << >>,
     conn |-> 0, old_handler |-> "SIG_DFL", execResult |-> "none",
     execExceeded |-> FALSE, cursorPos |-> 0, all_rows |-> << >>,
     fetch_batch_count |-> 0, batches |-> << >>, fetchCalls |-> 0,
     exc |-> "none", status |-> 0, gpc |-> "none", i |-> 0,
     first_row |-> TRUE, chunks |-> << >>, media_type |-> "",
     filename |-> ""]

\* the server turns from request cur to request r
Switch ==
    /\ running = "none"
    /\ \E r \in DOMAIN parked :
         /\ cur' = r
         /\ parked' = [q \in (DOMAIN parked \ {r}) \cup {cur} |->
                          IF q = cur THEN Locals ELSE parked[q]]
         /\ sql' = parked[r].sql
         /\ format' = parked[r].format
         /\ pc' = parked[r].pc
         /\ request_format' = parked[r].request_format
         /\ conn' = parked[r].conn
         /\ old_handler' = parked[r].old_handler
         /\ execResult' = parked[r].execResult
         /\ execExceeded' = parked[r].execExceeded
         /\ cursorPos' = parked[r].cursorPos
         /\ all_rows' = parked[r].all_rows
         /\ fetch_batch_count' = parked[r].fetch_batch_count
         /\ batches' = parked[r].batches
         /\ fetchCalls' = parked[r].fetchCalls
         /\ exc' = parked[r].exc
         /\ status' = parked[r].status
         /\ gpc' = parked[r].gpc
         /\ i' = parked[r].i
         /\ first_row' = parked[r].first_row
         /\ chunks' = parked[r].chunks
         /\ media_type' = parked[r].media_type
         /\ filename' = parked[r].filename
    /\ UNCHANGED << dbExists, hasSIGALRM, BATCH_SIZE, QUERY_TIMEOUT,
                    resultSet, conns, alarmArmed, sigHandler, running,
                    errorLog, healthVars >>

\* MaxRequests requests, each a SELECT in csv or json over the same table of
\* MaxBatchSize rows, on a host with the database file
InitConc ==
    /\ dbExists = TRUE
    /\ hasSIGALRM \in BOOLEAN
    /\ BATCH_SIZE = MaxBatchSize
    /\ QUERY_TIMEOUT = MaxTimeout
    /\ resultSet = [k \in 1..MaxBatchSize |-> k]
    /\ conns = << >>
    /\ alarmArmed = FALSE
    /\ sigHandler = "SIG_DFL"
    /\ running = "none"
    /\ errorLog = {}
    /\ hpc = "idle"
    /\ hconn = 0
    /\ hexc = "none"
    /\ hstatus = 0
    /\ cur = 1
    /\ parked \in [2..MaxRequests -> {NewRequest(SELECT, f) : f \in {csv, json}}]
    /\ \E f \in {csv, json} :
         /\ sql = NewRequest(SELECT, f).sql
         /\ format = NewRequest(SELECT, f).format
         /\ pc = NewRequest(SELECT, f).pc
         /\ request_format = NewRequest(SELECT, f).request_format
         /\ conn = NewRequest(SELECT, f).conn
         /\ old_handler = NewRequest(SELECT, f).old_handler
         /\ execResult = NewRequest(SELECT, f).execResult
         /\ execExceeded = NewRequest(SELECT, f).execExceeded
         /\ cursorPos = NewRequest(SELECT, f).cursorPos
         /\ all_rows = NewRequest(SELECT, f).all_rows
         /\ fetch_batch_count = NewRequest(SELECT, f).fetch_batch_count
         /\ batches = NewRequest(SELECT, f).batches
         /\ fetchCalls = NewRequest(SELECT, f).fetchCalls
         /\ exc = NewRequest(SELECT, f).exc
         /\ status = NewRequest(SELECT, f).status
         /\ gpc = NewRequest(SELECT, f).gpc
         /\ i = NewRequest(SELECT, f).i
         /\ first_row = NewRequest(SELECT, f).first_row
         /\ chunks = NewRequest(SELECT, f).chunks
         /\ media_type = NewRequest(SELECT, f).media_type
         /\ filename = NewRequest(SELECT, f).filename

NextConc ==
    \/ Next
    \/ Switch

SpecConc == InitConc /\ [][NextConc]_vars

(***************************************************************************)
(* What the properties below speak of.                                     *)
(***************************************************************************)
\* the connections sqlite3.connect returned to a call made by query()
QueryConns == {c \in 1..Len(conns) : conns[c].owner = "query"}

\* query() has returned or raised
Left == pc \in {"failed", "streaming", "stream_failed", "done"}

\* the request is over: an error was reported, or the stream ended
Ended == pc \in {"failed", "stream_failed", "done"}

\* the statement, leading whitespace skipped and case ignored, begins with
\* the letters of SELECT
BeginsWithSelect(s) ==
    \E k \in 0..Len(s) :
        /\ \A j \in 1..k : IsSpace(s[j])
        /\ Len(s) >= k + 6
        /\ \A m \in 1..6 : s[k + m] \in {SELECT[m], LowerChar(SELECT[m])}

\* the request passes both validations of query()
PassesValidation == NormalizeFormat(format) \in {csv, json} /\ BeginsWithSelect(sql)

RECURSIVE EmittedRows(_)
\* the number of rows the chunks of a sequence encode
EmittedRows(cs) ==
    IF cs = << >> THEN 0 ELSE Len(Head(cs).rows) + EmittedRows(Tail(cs))

RECURSIVE Concat(_)
\* the batches of a sequence, joined in order
Concat(bs) == IF bs = << >> THEN << >> ELSE Head(bs) \o Concat(Tail(bs))

RECURSIVE RowCount(_)
\* the sizes of the batches of a sequence, summed
RowCount(bs) == IF bs = << >> THEN 0 ELSE Len(Head(bs)) + RowCount(Tail(bs))

\* ceil(n / b)
Ceil(n, b) == (n + b - 1) \div b

(***************************************************************************)
(* C1: on every path of /query on which a connection was opened and a      *)
(* failure follows, the connection is closed before the error reaches the  *)
(* boundary layer: no request that has left query() or ended has a         *)
(* connection it opened and never closed.                                  *)
(* Violated: a PRAGMA that raises inside get_db_connection leaves the      *)
(* handle connect returned open, and query() holds no reference to it.     *)
(***************************************************************************)
C1_NoOpenConnectionWhenLeft ==
    Left => \A c \in QueryConns : conns[c].closes >= 1

(***************************************************************************)
(* C2: the connection a request holds is closed exactly once over the      *)
(* whole request: never twice or more, and once when the request has left  *)
(* query().                                                                *)
(* Violated: an exception between conn.close() and the return reaches      *)
(* `except Exception`, whose `if conn: conn.close()` closes it again.      *)
(***************************************************************************)
C2_ClosedExactlyOnce ==
    conn # 0 =>
        /\ conns[conn].closes <= 1
        /\ Left => conns[conn].closes = 1

(***************************************************************************)
(* C3: a request whose sql, trimmed and case-folded, does not begin with   *)
(* SELECT fails with a client error (400) and no connection is opened at   *)
(* any point of the request.                                               *)
(***************************************************************************)
C3_NonSelectRejectedBeforeOpen ==
    ~BeginsWithSelect(sql) =>
        /\ QueryConns = {}
        /\ pc \in {"idle", "validate_format", "validate_sql", "failed"}
        /\ pc = "failed" => status = 400

C3_Witness ==
    /\ pc = "failed"
    /\ NormalizeFormat(format) \in {csv, json}
    /\ sql = << " ", "d", "e", "l", "e", "t", "e", " " >>
    /\ hpc = "idle"

(***************************************************************************)
(* C4 as stated: when execution exceeds the configured timeout the request *)
(* fails with the timeout status and the connection is closed by then.     *)
(* Violated on a host without SIGALRM, and with QUERY_TIMEOUT = 0: no      *)
(* alarm is armed and the slow statement is never interrupted.             *)
(***************************************************************************)
C4_Original ==
    (QUERY_TIMEOUT >= 1 /\ execExceeded /\ Left) =>
        /\ pc = "failed"
        /\ status = 408
        /\ conns[conn].closes >= 1

(***************************************************************************)
(* C4 amended: on a host with SIGALRM and with QUERY_TIMEOUT >= 1, when    *)
(* execution exceeds the timeout the request fails with status 408 and the *)
(* connection is closed when the failure is reported; and 408 is reported  *)
(* for nothing but a timeout.                                              *)
(***************************************************************************)
C4_TimeoutDistinctAndReleased ==
    /\ (hasSIGALRM /\ QUERY_TIMEOUT >= 1 /\ execExceeded /\ Left) =>
           /\ pc = "failed"
           /\ status = 408
           /\ conn # 0
           /\ conns[conn].closes >= 1
    /\ status = 408 => (execResult = "timeout" /\ execExceeded)

C4_Witness ==
    /\ pc = "failed"
    /\ status = 408
    /\ execExceeded
    /\ conn # 0
    /\ conns[conn].closes = 1

(***************************************************************************)
(* C5 as stated: with the database file missing, every query that passes   *)
(* validation and the health probe both fail with NotFound (404).          *)
(* Violated: health() catches the 404 of get_db_connection in its          *)
(* `except Exception` and reports 503.                                     *)
(***************************************************************************)
C5_Original ==
    ~dbExists =>
        /\ (Ended /\ PassesValidation) => (pc = "failed" /\ status = 404)
        /\ hpc \in {"done", "failed"} => (hpc = "failed" /\ hstatus = 404)

(***************************************************************************)
(* C5 amended: with the database file missing, every query that passes     *)
(* validation fails with 404, and the health probe fails with 503.         *)
(***************************************************************************)
C5_MissingFileOutcomes ==
    ~dbExists =>
        /\ (Left /\ PassesValidation) => (pc = "failed" /\ status = 404)
        /\ hpc \in {"done", "failed"} => (hpc = "failed" /\ hstatus = 503)
        /\ conns = << >>

C5_Witness ==
    /\ ~dbExists
    /\ PassesValidation
    /\ pc = "failed" /\ status = 404
    /\ hpc = "failed" /\ hstatus = 503

\* the rows fetched from the cursor and not yet part of an emitted chunk
FetchedNotEmitted == Len(all_rows) - EmittedRows(chunks)

(***************************************************************************)
(* C6 as stated: fetching and encoding are interleaved, so the fetched     *)
(* rows not yet emitted never number more than one batch.                  *)
(* Violated: the fetch loop reads the whole result set into all_rows       *)
(* before query() returns, and no chunk is emitted before that.            *)
(***************************************************************************)
C6_Original == FetchedNotEmitted <= BATCH_SIZE

(***************************************************************************)
(* C6 amended: every batch is fetched before any chunk is emitted.  While  *)
(* rows are fetched no chunk has been emitted, and once a chunk has been   *)
(* emitted all_rows holds the full result set; the fetched rows not yet    *)
(* emitted are bounded by the size of the result set, not of a batch.      *)
(***************************************************************************)
C6_AllFetchedBeforeFirstChunk ==
    /\ pc \in {"fetch", "close_cursor", "respond"} => chunks = << >>
    /\ chunks # << >> => (all_rows = resultSet /\ cursorPos = Len(resultSet))
    /\ gpc # "none" => all_rows = resultSet
    /\ FetchedNotEmitted \in 0..Len(resultSet)

C6_Witness ==
    /\ pc = "streaming"
    /\ Len(chunks) = 1
    /\ Len(resultSet) > BATCH_SIZE
    /\ FetchedNotEmitted = Len(resultSet)

(***************************************************************************)
(* C7: on the success path the connection is closed once the fetch loop    *)
(* has seen the cursor exhausted and before the streaming result is handed *)
(* over: whenever the response is being built, a chunk is being emitted or *)
(* has been emitted, the connection is closed.                             *)
(***************************************************************************)
C7_ClosedBeforeStreaming ==
    (pc \in {"respond", "streaming", "stream_failed", "done"} \/ chunks # << >>) =>
        /\ conn # 0
        /\ conns[conn].closes >= 1

C7_Witness ==
    /\ pc = "streaming"
    /\ gpc = "loop"
    /\ Len(chunks) = 2
    /\ conns[conn].closes = 1

(***************************************************************************)
(* C8 as stated: on every host every execution of the statement runs with  *)
(* the deadline armed.                                                     *)
(* Violated: without SIGALRM query() logs a warning and executes the       *)
(* statement with no alarm.                                                *)
(***************************************************************************)
C8_Original == (pc = "execute" /\ QUERY_TIMEOUT >= 1) => alarmArmed

(***************************************************************************)
(* C8 amended: the statement executes with the deadline armed exactly on   *)
(* a host that has SIGALRM, with QUERY_TIMEOUT >= 1; on a host without     *)
(* SIGALRM, and with QUERY_TIMEOUT = 0, it executes with no deadline.      *)
(***************************************************************************)
C8_DeadlineOnlyWithSIGALRM ==
    pc = "execute" =>
        /\ alarmArmed <=> (hasSIGALRM /\ QUERY_TIMEOUT >= 1)
        /\ alarmArmed => sigHandler = "timeout_signal"

C8_Witness ==
    /\ pc = "execute"
    /\ hasSIGALRM
    /\ alarmArmed

(***************************************************************************)
(* C9: for N rows and batch size B >= 1 the fetch loop, when it ends, has  *)
(* made exactly ceil(N/B) non-empty fetches, each of at most B rows, whose *)
(* sizes sum to N and whose concatenation in fetch order is the result set *)
(* in cursor order; it ends at the first empty fetch.  Until then the      *)
(* fetched rows are a prefix of the result set.                            *)
(***************************************************************************)
C9_FetchLoopPartitions ==
    /\ \A k \in 1..Len(batches) : Len(batches[k]) \in 1..BATCH_SIZE
    /\ all_rows = Concat(batches)
    /\ all_rows = SubSeq(resultSet, 1, Len(all_rows))
    /\ fetch_batch_count = Len(batches)
    /\ pc \in {"close_cursor", "respond", "streaming", "stream_failed", "done"} =>
           /\ Len(batches) = Ceil(Len(resultSet), BATCH_SIZE)
           /\ RowCount(batches) = Len(resultSet)
           /\ Concat(batches) = resultSet
           /\ fetchCalls = Len(batches) + 1
    /\ pc = "fetch" => fetchCalls = Len(batches)

C9_Witness ==
    /\ pc = "close_cursor"
    /\ Len(resultSet) = 3
    /\ BATCH_SIZE = 2
    /\ batches = << << 1, 2 >>, << 3 >> >>

\* the chunk sequence the claim describes for the rows of a result set
RecordArray(rows) ==
    [k \in 1..(IF rows = << >> THEN 2 ELSE 2 * Len(rows) + 1) |->
        IF k = 1 THEN Chunk("open", << >>)
        ELSE IF k = (IF rows = << >> THEN 2 ELSE 2 * Len(rows) + 1)
             THEN Chunk("close", << >>)
        ELSE IF k % 2 = 0 THEN Chunk("record", << rows[k \div 2] >>)
        ELSE Chunk("separator", << >>)]

(***************************************************************************)
(* C10: for N >= 0 rows the record-array encoder yields the opening        *)
(* marker, the N records in row order with exactly one separator between   *)
(* consecutive records, and the closing marker; a separator never directly *)
(* follows the opening marker nor directly precedes the closing marker,    *)
(* wherever the batch boundaries fall.                                     *)
(***************************************************************************)
C10_RecordArrayChunks ==
    request_format = json =>
        /\ pc = "done" => chunks = RecordArray(resultSet)
        /\ chunks = SubSeq(RecordArray(resultSet), 1, Len(chunks))
        /\ \A k \in 1..(Len(chunks) - 1) :
              /\ chunks[k].kind = "open" => chunks[k + 1].kind # "separator"
              /\ chunks[k + 1].kind = "close" => chunks[k].kind # "separator"

C10_Witness ==
    /\ request_format = json
    /\ pc = "done"
    /\ Len(resultSet) = 3
    /\ BATCH_SIZE = 2
    /\ Len(chunks) = 7

RECURSIVE CsvText(_)
\* the chunks of a delimited-text stream, concatenated
CsvText(cs) == IF cs = << >> THEN << >> ELSE CsvRecords(Head(cs)) \o CsvText(Tail(cs))

\* the delimited-text encoding of a result set in one pass: the header
\* record, then one record for every row in cursor order
OnePassCsv(rows) ==
    << [record |-> "column_names", row |-> 0] >>
        \o [k \in 1..Len(rows) |-> [record |-> "row", row |-> rows[k]]]

(***************************************************************************)
(* C11: for N >= 0 rows and batch size B >= 1 the chunks of the            *)
(* delimited-text encoder, concatenated, are the one-pass encoding (the    *)
(* header record, then every row once in cursor order); the batches it     *)
(* encodes partition the rows without overlap or gap; and it yields        *)
(* exactly 1 + ceil(N/B) chunks.  A stream under way is a prefix of it.    *)
(***************************************************************************)
C11_CsvChunksEqualOnePass ==
    (request_format = csv /\ gpc # "none") =>
        /\ CsvText(chunks) = SubSeq(OnePassCsv(resultSet), 1, Len(CsvText(chunks)))
        /\ \A k \in 2..Len(chunks) :
              /\ chunks[k].kind = "batch"
              /\ chunks[k].rows =
                    SubSeq(resultSet, (k - 2) * BATCH_SIZE + 1,
                           Min((k - 1) * BATCH_SIZE, Len(resultSet)))
              /\ chunks[k].rows # << >>
        /\ pc = "done" =>
              /\ CsvText(chunks) = OnePassCsv(resultSet)
              /\ Len(chunks) = 1 + Ceil(Len(resultSet), BATCH_SIZE)

C11_Witness ==
    /\ request_format = csv
    /\ pc = "done"
    /\ Len(resultSet) = 3
    /\ BATCH_SIZE = 2
    /\ Len(chunks) = 3

(***************************************************************************)
(* C12: a result set of zero rows still completes successfully in both     *)
(* formats: no failure comes from the rows being none, the delimited-text  *)
(* stream is the header record alone, and the record-array stream is the   *)
(* opening and the closing marker with no record or separator between.     *)
(***************************************************************************)
C12_ZeroRowsComplete ==
    resultSet = << >> =>
        /\ (execResult = "ok" /\ pc \in {"except", "failed"}) =>
               exc \in {"sqlite", "other"}
        /\ pc = "done" =>
               /\ status = 200
               /\ request_format = csv =>
                      chunks = << Chunk("header", << >>) >>
               /\ request_format = json =>
                      chunks = << Chunk("open", << >>), Chunk("close", << >>) >>
        /\ EmittedRows(chunks) = 0
        /\ \A k \in 1..Len(chunks) : chunks[k].kind \in {"header", "open", "close"}

C12_Witness ==
    /\ resultSet = << >>
    /\ pc = "done"
    /\ status = 200
    /\ request_format = json
    /\ Len(chunks) = 2

\* query() is failing, or has failed, because get_db_connection raised a
\* sqlite3.Error: sqlite3.connect raised, or a PRAGMA did
OpenFailed == pc \in {"except", "failed"} /\ exc = "sqlite" /\ conn = 0

(***************************************************************************)
(* C13 as stated: a failure to open the database for another reason than a *)
(* missing file surfaces as an outcome distinct from NotFound (404) and    *)
(* from ExecutionError (the 400 of `except sqlite3.Error`).                *)
(* Violated: the error of connect or of a PRAGMA is a sqlite3.Error and is *)
(* caught by the same `except sqlite3.Error`, which reports 400.           *)
(***************************************************************************)
C13_Original ==
    (pc = "failed" /\ OpenFailed) => status \notin {404, 400}

(***************************************************************************)
(* C13 amended: in /query a failure to open the database for another       *)
(* reason than a missing file is reported with status 400, the outcome of  *)
(* ExecutionError, and is distinct from NotFound only: 404 is reported     *)
(* when and only when the file is missing.  In /health every failure is    *)
(* reported with status 503.                                               *)
(***************************************************************************)
C13_OpenFailureIsSqliteError ==
    /\ (pc = "failed" /\ OpenFailed) => status = 400
    /\ (pc = "failed" /\ execResult = "error") => status = 400
    /\ (pc \in {"except", "failed"} /\ exc = "HTTP404") => ~dbExists
    /\ (pc = "failed" /\ status = 404) => (exc = "HTTP404" /\ conns = << >>)
    /\ hpc = "failed" => hstatus = 503

C13_Witness ==
    /\ pc = "failed"
    /\ OpenFailed
    /\ status = 400
    /\ QueryConns # {}

(***************************************************************************)
(* C14: the timeout is enforced around statement execution only: however   *)
(* the execution step is left (return, timeout, driver error) the alarm is *)
(* cancelled and the previous signal handler restored, so while rows are   *)
(* fetched, encoded and streamed, and in every other state outside the     *)
(* execution step, no deadline is armed and the handler is the old one.    *)
(***************************************************************************)
C14_DeadlineOnlyAroundExecute ==
    /\ pc \notin {"execute", "disarm"} =>
           (~alarmArmed /\ sigHandler = "SIG_DFL")
    /\ (pc = "after_execute" /\ execResult \in {"ok", "nocols", "error", "timeout"}) =>
           (~alarmArmed /\ sigHandler = old_handler)

C14_Witness ==
    /\ hasSIGALRM
    /\ QUERY_TIMEOUT >= 1
    /\ pc = "streaming"
    /\ chunks # << >>
    /\ ~alarmArmed
    /\ sigHandler = "SIG_DFL"

\* the phase of the pipeline's state machine a position of the request
\* belongs to: 0 Idle, 1 Validating, 2 Provisioning, 3 Executing,
\* 4 Fetching+Encoding, 5 Completed, 6 Failed
Phase(p) ==
    CASE p = "idle" -> 0
      [] p \in {"validate_format", "validate_sql"} -> 1
      [] p = "provision" -> 2
      [] p \in {"timed_execute", "execute", "disarm", "after_execute"} -> 3
      [] p \in {"fetch", "close_cursor", "respond", "streaming"} -> 4
      [] p = "done" -> 5
      [] p \in {"except", "failed", "stream_failed"} -> 6

\* a step stays in its phase, advances to the next one, or fails from a
\* phase that is not terminal
PhaseStep ==
    \/ Phase(pc') = Phase(pc)
    \/ Phase(pc) \in 0..4 /\ Phase(pc') = Phase(pc) + 1
    \/ Phase(pc) \in 0..4 /\ Phase(pc') = 6

\* the stream of a completed request has its last chunk
LastChunkEmitted ==
    /\ chunks # << >>
    /\ EmittedRows(chunks) = Len(resultSet)
    /\ request_format = json => chunks[Len(chunks)].kind = "close"
    /\ request_format = csv =>
           chunks[Len(chunks)].kind = IF resultSet = << >> THEN "header" ELSE "batch"

Requests == {cur} \cup DOMAIN parked

LocalsOf(r) == IF r = cur THEN Locals ELSE parked[r]

\* the positions of a request that has been handed a connection
Provisioned ==
    {"timed_execute", "execute", "disarm", "after_execute", "fetch",
     "close_cursor", "respond", "streaming", "stream_failed", "done"}

(***************************************************************************)
(* C16: with several requests in flight, a request that has been handed a  *)
(* connection holds one it opened itself, no two requests hold the same    *)
(* one, the probe holds its own; every connection has been used only by    *)
(* the request that opened it, and has had at most one statement executed  *)
(* on it.                                                                  *)
(***************************************************************************)
C16_OwnConnectionPerRequest ==
    /\ \A c \in 1..Len(conns) :
         /\ conns[c].users \subseteq {conns[c].req}
         /\ conns[c].execs <= 1
         /\ conns[c].owner = "health" <=> conns[c].req = 0
    /\ \A r \in Requests :
         /\ LocalsOf(r).pc \in Provisioned => LocalsOf(r).conn # 0
         /\ LocalsOf(r).conn # 0 => conns[LocalsOf(r).conn].req = r
    /\ \A r, q \in Requests :
         (r # q /\ LocalsOf(r).conn # 0) => LocalsOf(r).conn # LocalsOf(q).conn
    /\ hconn # 0 => conns[hconn].req = 0

C16_Witness ==
    /\ Cardinality(Requests) >= 2
    /\ \A r \in Requests :
         /\ LocalsOf(r).pc = "streaming"
         /\ LocalsOf(r).chunks # << >>
         /\ LocalsOf(r).gpc \in {"loop", "record"}
         /\ conns[LocalsOf(r).conn].execs = 1
    /\ hpc = "done"

\* f, without the white space around it and in lower case, is the word w
\* (a request without a format asks for csv)
FormatIs(f, w) ==
    LET g == IF f = None THEN csv ELSE f
    IN  \E a \in 1..Len(g) :
          /\ a + Len(w) - 1 <= Len(g)
          /\ \A k \in 1..Len(g) :
               IF k \in a..(a + Len(w) - 1)
               THEN LowerChar(g[k]) = w[k - a + 1]
               ELSE IsSpace(g[k])

(***************************************************************************)
(* C17: a request whose format, trimmed and in lower case, is neither csv  *)
(* nor json ends with status 400 and no connection is opened for it; a     *)
(* response that has begun has the media type and file name of the         *)
(* normalized format: text/csv and query_result.csv, or application/json   *)
(* and query_result.json.                                                  *)
(***************************************************************************)
C17_FormatDecidesResponse ==
    /\ (~FormatIs(format, csv) /\ ~FormatIs(format, json)) =>
           /\ pc \in {"idle", "validate_format", "failed"}
           /\ pc = "failed" => status = 400
           /\ QueryConns = {}
           /\ conn = 0
    /\ status = 200 =>
           \/ /\ FormatIs(format, csv)
              /\ media_type = "text/csv"
              /\ filename = "query_result.csv"
           \/ /\ FormatIs(format, json)
              /\ media_type = "application/json"
              /\ filename = "query_result.json"

C17_Witness ==
    /\ format \notin {json, csv, None}
    /\ FormatIs(format, json)
    /\ status = 200
    /\ pc = "done"
    /\ filename = "query_result.json"

\* the stream error of the request's format is in the log
StreamErrorLogged ==
    IF request_format = json
    THEN "Error streaming JSON rows" \in errorLog
    ELSE "Error streaming CSV rows" \in errorLog

(***************************************************************************)
(* C18: no error is swallowed.  Once an exception has been raised in       *)
(* query(), or execute has failed, the request is in an except clause or   *)
(* has ended with status 400, 404, 408 or 500; a failed probe has status   *)
(* 503.  A failure while the generator produces chunks is logged and the   *)
(* generator ends by raising: such a request never ends as completed, and  *)
(* a completed one has emitted its whole stream.                           *)
(***************************************************************************)
C18_NoErrorSwallowed ==
    /\ exc # "none" => pc \in {"except", "failed"}
    /\ (execResult \in {"timeout", "error", "nocols"} /\ pc \notin {"disarm", "after_execute"})
           => pc \in {"except", "failed"}
    /\ pc = "failed" => status \in {400, 404, 408, 500}
    /\ hexc # "none" => hpc \in {"except", "failed"}
    /\ hpc = "failed" => hstatus = 503
    /\ pc = "stream_failed" => (gpc = "raised" /\ StreamErrorLogged)
    /\ gpc = "raised" => pc = "stream_failed"
    /\ pc = "done" => (gpc = "returned" /\ LastChunkEmitted)

C18_Witness ==
    /\ pc = "stream_failed"
    /\ request_format = json
    /\ gpc = "raised"
    /\ "Error in JSON stream generator" \in errorLog
    /\ chunks # << >>
    /\ hpc = "failed"
    /\ hstatus = 503

\* the connections some caller of get_db_connection holds a reference to
Referenced == {hconn} \cup {LocalsOf(r).conn : r \in Requests}

(***************************************************************************)
(* C19: get_db_connection leaves no open connection behind when it raises: *)
(* a connection that no caller holds a reference to has been closed.       *)
(***************************************************************************)
C19_NoHandleLeftByOpen ==
    \A c \in 1..Len(conns) : c \notin Referenced => conns[c].closes >= 1

(***************************************************************************)
(* C20: when the probe has returned success or reported failure, the       *)
(* connection get_db_connection handed to it has been closed.              *)
(***************************************************************************)
C20_ProbeReleasesConnection ==
    (hpc \in {"done", "failed"} /\ hconn # 0) => conns[hconn].closes >= 1

====
